---- MODULE Spec2Model ----
\* Model of the siasisten vacancy bot: src/bot.py (VacancyBot cog) and
\* src/scraper_requests.py (ScraperRequests).
EXTENDS Integers, Sequences, FiniteSets, TLC

\* ------------------------------------------------------------------ bounds
\* Largest value of the wall clock (in ticks).
MaxClock == 1
\* Ticks per minute: the resolution lost by the "%H:%M" display format.
TicksPerMinute == 2
\* Largest number of <tr> rows of the listing table (header row included).
MaxRows == 2

\* Largest listing given to the diff and to the round trip through data.json.
MaxLen == 2

\* UTC offset of ZoneInfo("Asia/Jakarta"), in ticks.
JAKARTA_TZ == 7

\* ------------------------------------------------------------------ values
Titles == {"A", "B"}
Hrefs == {"/daftar/5"}
NoHref == "none"
base_url == "https://siasisten.cs.ui.ac.id"
LinkNotAvailable == "Link not available"

\* The in-memory snapshot is a Python tuple: () or (time, entries).
Empty == <<>>
Absent == [kind |-> "absent"]
Corrupt == [kind |-> "corrupt"]
NoTime == [wall |-> 0, off |-> 0]
NoLocals == [new_data |-> <<>>, now |-> NoTime, prev |-> Empty, new_entries |-> <<>>]
NoMsg == [kind |-> "none", asof |-> 0, body |-> <<>>]

\* A <tr> of the listing table: its number of <td> cells, the text of cell 1
\* and the href of the first anchor of cell 8 (NoHref when there is none).
Rows == [ncols : {8, 9}, title : Titles, href : Hrefs \cup {NoHref}]

RECURSIVE SeqsUpTo(_, _)
SeqsUpTo(S, n) ==
    IF n = 0 THEN {<<>>}
    ELSE LET shorter == SeqsUpTo(S, n - 1)
         IN  shorter \cup {Append(s, x) : s \in {t \in shorter : Len(t) = n - 1}, x \in S}

\* The responses of the listing page.
Pages == {[kind |-> "error", rows |-> <<>>], [kind |-> "no_table", rows |-> <<>>]}
         \cup {[kind |-> "table", rows |-> r] : r \in SeqsUpTo(Rows, MaxRows)}

\* The outcomes of the login exchange.
LoginResponses == {"error", "no_csrf", "not_redirected", "redirected"}

VARIABLES
    phase,      \* "boot" before VacancyBot.__init__, "up" after it
    clock,      \* the wall clock, in ticks (UTC)
    data,       \* self.data
    file,       \* data.json
    scraper,    \* self.scraper is not None
    ready,      \* the client's ready flag (wait_until_ready returns)
    task,       \* position of the vacancies_update_5mins task
    startError, \* Loop.start() raised RuntimeError
    upc,        \* position of the update command's coroutine
    running,    \* the coroutine that holds the event loop
    loc,        \* the locals of the two update coroutines
    msg,        \* the last message sent to the chat
    fetched,    \* a GET of the listing page was issued
    lastIO      \* outcome of the last write or delete of data.json

vars == <<phase, clock, data, file, scraper, ready, task,
          startError, upc, running, loc, msg, fetched, lastIO>>

\* ------------------------------------------------------------- time
\* dt.datetime.now(tz): an aware datetime, wall-clock fields plus UTC offset.
Now(tz) == [wall |-> clock + tz, off |-> tz]

\* datetime.strftime(FMT), FMT = "%Y-%m-%d %H:%M:%S.%f%z".
Strftime(d) ==
    [ymdhm |-> d.wall \div TicksPerMinute, sf |-> d.wall % TicksPerMinute, z |-> d.off]

\* datetime.strptime(s, FMT): an aware datetime with the fixed offset of %z.
Strptime(s) == [wall |-> s.ymdhm * TicksPerMinute + s.sf, off |-> s.z]

\* datetime.astimezone(tz): the same instant, expressed in tz.
AstimezoneNaive(d, tz) == [wall |-> d.wall, off |-> tz]
Astimezone(d, tz) == [wall |-> d.wall - d.off + tz, off |-> tz]

\* Equality of aware datetimes compares instants.
SameInstant(a, b) == a.wall - a.off = b.wall - b.off

\* get_formatted_time(): the current Jakarta time to the minute.
get_formatted_time == Now(JAKARTA_TZ).wall \div TicksPerMinute

\* The same format applied to an arbitrary datetime.
FormatTime(d) == Astimezone(d, JAKARTA_TZ).wall \div TicksPerMinute

\* ------------------------------------------------------------- scraper
\* ScraperRequests.login: True only when the POST was redirected away from
\* the login page; a missing CSRF token or any exception gives False.
login(resp) == resp = "redirected"

\* ScraperRequests.__init__ raises when login fails; initialize_scraper
\* catches it and leaves self.scraper = None.
initialize_scraper(resp) == login(resp)

\* The 'Daftar' link of a row.
daftar_link(row) ==
    IF row.href # NoHref THEN [base |-> base_url, path |-> row.href]
    ELSE [base |-> "", path |-> LinkNotAvailable]

\* The loop over rows[1:]: rows with fewer than 9 cells are skipped.
RECURSIVE ParseRows(_, _)
ParseRows(rows, i) ==
    IF i > Len(rows) THEN <<>>
    ELSE IF rows[i].ncols < 9 THEN ParseRows(rows, i + 1)
    ELSE <<[title |-> rows[i].title, daftar_link |-> daftar_link(rows[i])]>>
         \o ParseRows(rows, i + 1)

\* ScraperRequests.get_lowongan: [] on any failure, on a page without a table
\* and on a table with no data row.
get_lowongan(page) ==
    IF page.kind = "error" THEN <<>>
    ELSE IF page.kind = "no_table" THEN <<>>
    ELSE IF Len(page.rows) <= 1 THEN <<>>
    ELSE ParseRows(page.rows, 2)

\* Everything a fetch of the listing page can return.
FetchResults == {get_lowongan(page) : page \in Pages}

\* The entries get_lowongan can build, and the listings made of them.
Entries == [title : Titles, daftar_link : {daftar_link(r) : r \in Rows}]
Listings == SeqsUpTo(Entries, MaxLen)

\* ------------------------------------------------------------- persistence
\* What load_data assigns to self.data.
load_data_replace_tz(f) ==
    IF f.kind = "absent" THEN Empty
    ELSE IF f.kind = "corrupt" THEN Empty
    ELSE <<AstimezoneNaive(Strptime(f.time), JAKARTA_TZ), f.data>>
load_data(f) ==
    IF f.kind = "absent" THEN Empty
    ELSE IF f.kind = "corrupt" THEN Empty
    ELSE <<Astimezone(Strptime(f.time), JAKARTA_TZ), f.data>>

\* The outcomes of write_json: the write succeeds, or an exception is raised
\* (and logged) after open() truncated the file.
WriteOutcomes == {"ok", "dump_failed"}

\* data.json after write_json(d) with the given outcome.
write_json_skipped(f, d, outcome) == f
write_json(f, d, outcome) ==
    IF outcome = "ok" THEN [kind |-> "json", time |-> Strftime(d[1]), data |-> d[2]]
    ELSE Corrupt

WriteLog(outcome) == IF outcome = "ok" THEN "write_ok" ELSE "write_fail"

\* ------------------------------------------------------------- diff
TitlesOf(entries) == {entries[i].title : i \in 1..Len(entries)}

Filter(entries, seen) == SelectSeq(entries, LAMBDA e : e.title \notin seen)

\* update_list_lowongan, lines 173-204: the entries the reply reports.
ManualNewEntriesByEntry(d, new_data) ==
    IF d = Empty THEN new_data
    ELSE SelectSeq(new_data, LAMBDA e : e \notin {d[2][i] : i \in 1..Len(d[2])})
ManualNewEntries(d, new_data) ==
    IF d = Empty \/ TitlesOf(new_data) # TitlesOf(d[2])
    THEN IF d # Empty THEN Filter(new_data, TitlesOf(d[2])) ELSE new_data
    ELSE <<>>

\* perform_update, lines 287-293.
PerformNewEntries(d, new_data) ==
    IF d = Empty THEN new_data ELSE Filter(new_data, TitlesOf(d[2]))

\* "if not new_data": an empty fetch ends the cycle.
FetchFailedNever(new_data) == FALSE
FetchFailed(new_data) == new_data = <<>>

\* ------------------------------------------------------------- messages
\* The bulleted lines of an embed description, one per entry.
Bullets(entries) ==
    [i \in 1..Len(entries) |-> [bullet |-> entries[i].title, link |-> entries[i].daftar_link]]

Embed(kind, asof, entries) == [kind |-> kind, asof |-> asof, body |-> Bullets(entries)]

\* The embed built from the new entries (lines 184-204 and 248-263).
UpdateEmbed(new_entries, formatted_time) ==
    IF new_entries # <<>> THEN Embed("new", formatted_time, new_entries)
    ELSE Embed("nonew", formatted_time, <<>>)

\* ------------------------------------------------------------- event loop
\* The labels at which a coroutine is suspended (not started, sleeping, or
\* awaiting a send): only there can another coroutine run.
AwaitPointsWithStore == {"idle", "unstarted", "before_loop", "sleeping", "send", "store"}
AwaitPoints == {"idle", "unstarted", "before_loop", "sleeping", "send"}

\* Coroutine p, at label l, may take its next step.
CanStep(p, l) == IF l \in AwaitPoints THEN running = "none" ELSE running = p

\* Who holds the loop once p has moved to label l.
Holder(p, l) == IF l \in AwaitPoints THEN "none" ELSE p

\* ------------------------------------------------------------- actions
SetLoc(p, l) == loc' = [loc EXCEPT ![p] = l]

\* The step sends nothing to the chat.
Silent == msg' = NoMsg

\* The wall clock advances.
Tick ==
    /\ clock < MaxClock
    /\ clock' = clock + 1
    /\ Silent
    /\ UNCHANGED <<phase, data, file, scraper, ready, task, startError,
                   upc, running, loc, fetched, lastIO>>

\* VacancyBot.__init__: load_data(), then initialize_scraper().
VacancyBot_init ==
    /\ phase = "boot"
    /\ \E resp \in LoginResponses :
          scraper' = initialize_scraper(resp)
    /\ data' = load_data(file)
    /\ phase' = "up"
    /\ Silent
    /\ UNCHANGED <<clock, file, ready, task, startError, upc, running,
                   loc, fetched, lastIO>>

\* tasks.Loop.start(): raises RuntimeError when the task is already launched
\* and not completed, otherwise launches the task.
LoopStart ==
    IF task # "unstarted"
    THEN startError' = TRUE /\ UNCHANGED task
    ELSE task' = "before_loop" /\ UNCHANGED startError

\* The gateway delivers READY (again after a reconnect): the client becomes
\* ready and runs on_ready, lines 110-129.
on_ready_unguarded ==
    /\ phase = "up"
    /\ running = "none"
    /\ ready' = TRUE
    /\ \E guild \in BOOLEAN :
          IF ~guild THEN UNCHANGED <<task, startError>> ELSE LoopStart
    /\ Silent
    /\ UNCHANGED <<phase, clock, data, file, scraper, upc, running, loc, fetched,
                   lastIO>>
on_ready ==
    /\ phase = "up"
    /\ running = "none"
    /\ ready' = TRUE
    /\ \E guild \in BOOLEAN :
          IF ~guild THEN UNCHANGED <<task, startError>>
          ELSE IF scraper THEN LoopStart
          ELSE UNCHANGED <<task, startError>>
    /\ Silent
    /\ UNCHANGED <<phase, clock, data, file, scraper, upc, running, loc, fetched,
                   lastIO>>

\* before_vacancies_update_5mins: wait_until_ready(), then the loop begins.
before_vacancies_update_5mins ==
    /\ task = "before_loop"
    /\ running = "none"
    /\ ready
    /\ task' = "sleeping"
    /\ Silent
    /\ UNCHANGED <<phase, clock, data, file, scraper, ready, startError,
                   upc, running, loc, fetched, lastIO>>

\* vacancies_update_5mins fires: perform_update, lines 275-285.
perform_update_fetch ==
    /\ task = "sleeping"
    /\ CanStep("timer", task)
    /\ IF ~scraper
       THEN UNCHANGED <<task, running, loc, fetched>>
       ELSE \E new_data \in FetchResults :
                  /\ fetched' = TRUE
                  /\ IF FetchFailed(new_data)
                     THEN UNCHANGED <<task, running, loc>>
                     ELSE /\ task' = "diff"
                          /\ running' = Holder("timer", "diff")
                          /\ SetLoc("timer", [NoLocals EXCEPT !.new_data = new_data,
                                                               !.now = Now(JAKARTA_TZ)])
    /\ Silent
    /\ UNCHANGED <<phase, clock, data, file, scraper, ready, startError,
                   upc, lastIO>>

\* perform_update, lines 287-293.
perform_update_diff ==
    /\ task = "diff"
    /\ CanStep("timer", task)
    /\ SetLoc("timer", [loc["timer"] EXCEPT
                          !.prev = data,
                          !.new_entries = PerformNewEntries(data, loc["timer"].new_data)])
    /\ task' = "store"
    /\ running' = Holder("timer", "store")
    /\ Silent
    /\ UNCHANGED <<phase, clock, data, file, scraper, ready, startError,
                   upc, fetched, lastIO>>

\* perform_update, lines 295-300, and send_vacancy_update up to its
\* "await channel.send" (lines 248-266): the embed is handed to the channel,
\* when the channel is found, and the coroutine is suspended.
perform_update_store ==
    /\ task = "store"
    /\ CanStep("timer", task)
    /\ IF loc["timer"].new_entries # <<>>
       THEN /\ data' = <<loc["timer"].now, loc["timer"].new_data>>
            /\ \E outcome \in WriteOutcomes :
                  /\ file' = write_json(file, data', outcome)
                  /\ lastIO' = WriteLog(outcome)
            /\ \E channel \in BOOLEAN :
                  IF channel
                  THEN /\ msg' = UpdateEmbed(loc["timer"].new_entries,
                                             FormatTime(loc["timer"].now))
                       /\ task' = "send"
                       /\ running' = Holder("timer", "send")
                  ELSE /\ Silent
                       /\ task' = "sleeping"
                       /\ running' = Holder("timer", "sleeping")
       ELSE /\ task' = "sleeping"
            /\ running' = Holder("timer", "sleeping")
            /\ Silent
            /\ UNCHANGED <<data, file, lastIO>>
    /\ SetLoc("timer", NoLocals)
    /\ UNCHANGED <<phase, clock, scraper, ready, startError, upc, fetched>>

\* channel.send completes (lines 266-267); perform_update returns and the
\* loop sleeps until its next iteration.
send_vacancy_update_done ==
    /\ task = "send"
    /\ CanStep("timer", task)
    /\ task' = "sleeping"
    /\ running' = Holder("timer", "sleeping")
    /\ Silent
    /\ UNCHANGED <<phase, clock, data, file, scraper, ready, startError, upc, loc,
                   fetched, lastIO>>

\* The update command, lines 161-171.
update_list_lowongan_fetch ==
    /\ phase = "up"
    /\ upc = "idle"
    /\ CanStep("manual", upc)
    /\ IF ~scraper
       THEN /\ msg' = Embed("unavailable", 0, <<>>)
            /\ UNCHANGED <<upc, running, loc, fetched>>
       ELSE \E new_data \in FetchResults :
                  /\ fetched' = TRUE
                  /\ IF FetchFailed(new_data)
                     THEN /\ msg' = Embed("failed", 0, <<>>)
                          /\ UNCHANGED <<upc, running, loc>>
                     ELSE /\ upc' = "diff"
                          /\ running' = Holder("manual", "diff")
                          /\ SetLoc("manual", [NoLocals EXCEPT !.new_data = new_data,
                                                                !.now = Now(JAKARTA_TZ)])
                          /\ Silent
    /\ UNCHANGED <<phase, clock, data, file, scraper, ready, task,
                   startError, lastIO>>

\* The update command, lines 173-204.
update_list_lowongan_diff ==
    /\ upc = "diff"
    /\ CanStep("manual", upc)
    /\ SetLoc("manual", [loc["manual"] EXCEPT
                           !.prev = data,
                           !.new_entries = ManualNewEntries(data, loc["manual"].new_data)])
    /\ upc' = "store"
    /\ running' = Holder("manual", "store")
    /\ Silent
    /\ UNCHANGED <<phase, clock, data, file, scraper, ready, task,
                   startError, fetched, lastIO>>

\* The update command, lines 205-207: the snapshot is replaced and written,
\* the reply is handed to ctx.send and the coroutine is suspended.
update_list_lowongan_store ==
    /\ upc = "store"
    /\ CanStep("manual", upc)
    /\ data' = <<loc["manual"].now, loc["manual"].new_data>>
    /\ \E outcome \in WriteOutcomes :
          /\ file' = write_json(file, data', outcome)
          /\ lastIO' = WriteLog(outcome)
    /\ msg' = UpdateEmbed(loc["manual"].new_entries, FormatTime(loc["manual"].now))
    /\ upc' = "send"
    /\ running' = Holder("manual", "send")
    /\ SetLoc("manual", NoLocals)
    /\ UNCHANGED <<phase, clock, scraper, ready, task, startError, fetched>>

\* ctx.send completes and the command returns.
update_list_lowongan_done ==
    /\ upc = "send"
    /\ CanStep("manual", upc)
    /\ upc' = "idle"
    /\ running' = Holder("manual", "idle")
    /\ Silent
    /\ UNCHANGED <<phase, clock, data, file, scraper, ready, task, startError, loc,
                   fetched, lastIO>>

\* The display command, lines 136-154.
display_list_lowongan ==
    /\ phase = "up"
    /\ running = "none"
    /\ msg' = IF data = Empty THEN Embed("nodata", 0, <<>>)
              ELSE Embed("listing", get_formatted_time, data[2])
    /\ UNCHANGED <<phase, clock, data, file, scraper, ready, task,
                   startError, upc, running, loc, fetched, lastIO>>

\* The help command, lines 214-225.
get_help ==
    /\ phase = "up"
    /\ running = "none"
    /\ msg' = Embed("help", 0, <<>>)
    /\ UNCHANGED <<phase, clock, data, file, scraper, ready, task,
                   startError, upc, running, loc, fetched, lastIO>>

\* The clear command, lines 232-240. os.remove may fail; the failure is
\* logged and the file stays.
clear_data_keep_file ==
    /\ phase = "up"
    /\ running = "none"
    /\ data' = Empty
    /\ lastIO' = IF file.kind # "absent" THEN "delete_ok" ELSE "no_file"
    /\ msg' = Embed("cleared", 0, <<>>)
    /\ UNCHANGED <<phase, clock, file, scraper, ready, task, startError,
                   upc, running, loc, fetched>>
clear_data ==
    /\ phase = "up"
    /\ running = "none"
    /\ data' = Empty
    /\ IF file.kind # "absent"
       THEN \E removed \in BOOLEAN :
              IF removed THEN file' = Absent /\ lastIO' = "delete_ok"
              ELSE UNCHANGED file /\ lastIO' = "delete_fail"
       ELSE UNCHANGED file /\ lastIO' = "no_file"
    /\ msg' = Embed("cleared", 0, <<>>)
    /\ UNCHANGED <<phase, clock, scraper, ready, task, startError, upc,
                   running, loc, fetched>>

\* ------------------------------------------------------------- specification
\* The listings an earlier run may have left in data.json.
EarlierListings ==
    {l \in FetchResults : Len(l) = 1}

Init ==
    /\ phase = "boot"
    /\ clock = 0
    /\ data = Empty
    /\ file \in {Absent, Corrupt}
                \cup {write_json(Absent, <<[wall |-> JAKARTA_TZ, off |-> JAKARTA_TZ], l>>, "ok") :
                        l \in EarlierListings}
    /\ scraper = FALSE
    /\ ready = FALSE
    /\ task = "unstarted"
    /\ startError = FALSE
    /\ upc = "idle"
    /\ running = "none"
    /\ loc = [p \in {"manual", "timer"} |-> NoLocals]
    /\ msg = NoMsg
    /\ fetched = FALSE
    /\ lastIO = "none"

Next ==
    \/ Tick
    \/ VacancyBot_init
    \/ on_ready
    \/ before_vacancies_update_5mins
    \/ perform_update_fetch
    \/ perform_update_diff
    \/ perform_update_store
    \/ send_vacancy_update_done
    \/ update_list_lowongan_fetch
    \/ update_list_lowongan_diff
    \/ update_list_lowongan_store
    \/ update_list_lowongan_done
    \/ display_list_lowongan
    \/ get_help
    \/ clear_data

Spec == Init /\ [][Next]_vars

\* ------------------------------------------------- specification of the diff
\* One update cycle has fetched a listing and is about to diff it against
\* the stored snapshot: every stored snapshot, every fetched listing.
Offsets == {0, JAKARTA_TZ, 9}

Snapshots(offs) ==
    {<<[wall |-> c + o, off |-> o], l>> : c \in 0..MaxClock, o \in offs, l \in Listings}

InitDiff ==
    /\ phase = "up"
    /\ clock \in 0..MaxClock
    /\ data \in {Empty} \cup Snapshots({JAKARTA_TZ})
    /\ file = IF data = Empty THEN Absent ELSE write_json(Absent, data, "ok")
    /\ scraper = TRUE
    /\ ready = TRUE
    /\ startError = FALSE
    /\ \E p \in {"manual", "timer"} :
          /\ running = p
          /\ upc = IF p = "manual" THEN "diff" ELSE "idle"
          /\ task = IF p = "timer" THEN "diff" ELSE "sleeping"
          /\ \E l \in Listings \ {<<>>} :
                loc = [q \in {"manual", "timer"} |->
                         IF q = p THEN [NoLocals EXCEPT !.new_data = l,
                                                        !.now = Now(JAKARTA_TZ)]
                         ELSE NoLocals]
    /\ msg = NoMsg
    /\ fetched = TRUE
    /\ lastIO = IF data = Empty THEN "none" ELSE "write_ok"

NextDiff ==
    \/ update_list_lowongan_diff
    \/ perform_update_diff

SpecDiff == InitDiff /\ [][NextDiff]_vars

\* ------------------------------------------- specification of the round trip
\* write_json(self.data) for every snapshot, then load_data().
write_json_call ==
    /\ phase = "rt"
    /\ \E outcome \in WriteOutcomes :
          /\ file' = write_json(file, data, outcome)
          /\ lastIO' = WriteLog(outcome)
    /\ phase' = "rt_written"
    /\ UNCHANGED <<clock, data, scraper, ready, task, startError, upc, running, loc,
                   msg, fetched>>

load_data_call ==
    /\ phase = "rt_written"
    /\ data' = load_data(file)
    /\ phase' = "rt_loaded"
    /\ UNCHANGED <<clock, file, scraper, ready, task, startError, upc, running, loc,
                   msg, fetched, lastIO>>

InitRT ==
    /\ phase = "rt"
    /\ clock = 0
    /\ data \in Snapshots(Offsets)
    /\ file \in {Absent, Corrupt}
    /\ scraper = FALSE
    /\ ready = FALSE
    /\ task = "unstarted"
    /\ startError = FALSE
    /\ upc = "idle"
    /\ running = "none"
    /\ loc = [p \in {"manual", "timer"} |->
                IF p = "manual" THEN [NoLocals EXCEPT !.prev = data] ELSE NoLocals]
    /\ msg = NoMsg
    /\ fetched = FALSE
    /\ lastIO = "none"

NextRT ==
    \/ write_json_call
    \/ load_data_call

SpecRT == InitRT /\ [][NextRT]_vars

\* ------------------------------------------------------------- properties
PcOf(p) == IF p = "manual" THEN upc ELSE task
Cycles == {"manual", "timer"}
ClearLogs == {"delete_ok", "delete_fail", "no_file"}
FailLogs == {"write_fail", "delete_fail"}

\* A step of an update cycle whose fetch returned the empty sequence: the
\* fetch step that ends the cycle, or any later step of such a cycle.
EmptyFetchStep ==
    \/ update_list_lowongan_fetch /\ scraper /\ upc' = "idle"
    \/ perform_update_fetch /\ scraper /\ task' = "sleeping"
    \/ \E p \in Cycles :
          /\ PcOf(p) \in {"diff", "store"}
          /\ loc[p].new_data = <<>>
          /\ loc'[p] # loc[p]

\* C1: an update cycle (manual or timer) whose fetch returns the empty
\* sequence leaves the in-memory snapshot and data.json exactly as they were.
C1_EmptyFetchChangesNothing == [][EmptyFetchStep => UNCHANGED <<data, file>>]_vars

\* A manual update has just replied that the fetch failed, with a snapshot in
\* memory and on disk.
C1_Witness == msg.kind = "failed" /\ data # Empty /\ file.kind = "json"

\* The step that ends the part of a cycle that decides what is stored.
StoreStep(p) == PcOf(p) = "store" /\ loc'[p] = NoLocals

\* C2: every update cycle, manual or timer, with the scraper available and a
\* non-empty fetch replaces the stored snapshot by {now, fetched}: after the
\* cycle the snapshot's entries are the fetched listing, whether or not the
\* diff was empty.
C2_SnapshotReplaced ==
    [][\A p \in Cycles :
          StoreStep(p) => data' = <<loc[p].now, loc[p].new_data>>]_vars

\* The entries of cur whose title is the title of no entry of prev, in the
\* order of cur.
RECURSIVE NotSeenBefore(_, _)
NotSeenBefore(prev, cur) ==
    IF cur = <<>> THEN <<>>
    ELSE (IF \E i \in 1..Len(prev) : prev[i].title = Head(cur).title
          THEN <<>> ELSE <<Head(cur)>>)
         \o NotSeenBefore(prev, Tail(cur))

\* C3: the new entries an update cycle computes are all fetched entries when
\* the previous snapshot is empty, and otherwise exactly the fetched entries
\* whose title equals the title of no entry of the previous snapshot, in the
\* order of the fetched listing.
C3_NewEntries ==
    \A p \in Cycles :
       PcOf(p) = "store" =>
          loc[p].new_entries =
             IF loc[p].prev = Empty THEN loc[p].new_data
             ELSE NotSeenBefore(loc[p].prev[2], loc[p].new_data)

\* A manual cycle diffed a listing holding the same new title twice against
\* a non-empty snapshot, and reports both entries.
C3_Witness ==
    /\ upc = "store"
    /\ loc["manual"].prev # Empty
    /\ Len(loc["manual"].prev[2]) > 0
    /\ Len(loc["manual"].new_entries) = 2
    /\ loc["manual"].new_entries[1].title = loc["manual"].new_entries[2].title

\* C4: between the point where an update cycle reads the stored snapshot for
\* its diff and the point where it replaces and saves it, no other update
\* cycle and no clear runs: the cycle holds the event loop, the snapshot it
\* diffed against is still the stored one, and no other cycle is in between.
C4_Serialized ==
    \A p \in Cycles :
       PcOf(p) = "store" =>
          /\ running = p
          /\ loc[p].prev = data
          /\ \A q \in Cycles \ {p} : PcOf(q) \notin {"diff", "store"}

\* The manual cycle is between its diff and its save while the timer's cycle
\* is still in flight (awaiting its send), with a snapshot stored.
C4_Witness == upc = "store" /\ task = "send" /\ data # Empty

\* Login failed when the scraper was constructed.
LoginFailed == phase = "up" /\ ~scraper

\* C5: if login fails at construction the scraper stays unavailable: the
\* background task is never started, no listing fetch is ever issued, and
\* every update request leaves the in-memory snapshot and data.json unchanged.
C5_LoginFailure ==
    /\ [](LoginFailed =>
            /\ task = "unstarted"
            /\ ~fetched
            /\ upc = "idle"
            /\ loc = [p \in Cycles |-> NoLocals])
    /\ [][LoginFailed => LoginFailed']_vars
    /\ [][LoginFailed /\ (update_list_lowongan_fetch \/ perform_update_fetch)
            => UNCHANGED <<data, file>>]_vars

\* Login failed, the ready event was delivered, and a manual update was just
\* refused, with a snapshot in memory.
C5_Witness ==
    /\ LoginFailed
    /\ ready
    /\ msg.kind = "unavailable"
    /\ data # Empty

\* C6 as claimed: after clear completes, from any state, the in-memory
\* snapshot is empty and data.json is absent.
C6_ClearAlwaysRemoves ==
    lastIO \in ClearLogs => data = Empty /\ file = Absent

\* C6: after clear completes the in-memory snapshot is empty, and data.json
\* is absent unless deleting it failed, in which case the file is left as it
\* was; clear on a cleared state (no file) changes nothing.
C6_Clear ==
    [][msg'.kind = "cleared" =>
          /\ data' = Empty
          /\ IF lastIO' = "delete_fail" THEN file' = file /\ file # Absent
             ELSE file' = Absent
          /\ (data = Empty /\ file = Absent) => (data' = data /\ file' = file)]_vars

\* Clear has just removed the file of a loaded snapshot.
C6_Witness == msg.kind = "cleared" /\ lastIO = "delete_ok" /\ data = Empty /\ file = Absent

\* Two snapshots with the same instant and the same entries in the same order.
SameSnapshot(a, b) ==
    /\ a # Empty
    /\ b # Empty
    /\ SameInstant(a[1], b[1])
    /\ a[2] = b[2]

\* C7: for every snapshot written by write_json, a following load_data yields
\* an in-memory snapshot with the same timestamp and the same entries in the
\* same order.
C7_RoundTrip ==
    (phase = "rt_loaded" /\ lastIO = "write_ok") => SameSnapshot(data, loc["manual"].prev)

\* A snapshot stamped in another zone than Jakarta, at an odd tick, with a
\* full listing, was written and loaded back.
C7_Witness ==
    /\ phase = "rt_loaded"
    /\ lastIO = "write_ok"
    /\ loc["manual"].prev[1].off # JAKARTA_TZ
    /\ loc["manual"].prev[1].wall % TicksPerMinute # 0
    /\ Len(loc["manual"].prev[2]) = MaxLen

\* C8: display, with a non-empty snapshot, renders a title holding the
\* capture timestamp of the stored snapshot and a body with one bulleted
\* line per entry, in order.
C8_DisplayCaptureTime ==
    msg.kind = "listing" =>
       /\ data # Empty
       /\ msg.asof = FormatTime(data[1])
       /\ msg.body = Bullets(data[2])

\* C9: the timer-triggered update never runs before the bot is ready, and
\* for every sequence of ready events the timer is started without error.
C9_TimerStart ==
    /\ ~startError
    /\ task \notin {"unstarted", "before_loop"} => ready

\* What a restart would load is the in-memory snapshot; after a clear the
\* file is absent.
RestartReproduces ==
    /\ data # Empty => (file.kind = "json" /\ load_data(file) = data)
    /\ lastIO \in ClearLogs => file = Absent

====
